---- MODULE Spec2Model ----
(***************************************************************************)
(* The certificate-association middleware of nanomdm (package certauth).   *)
(*                                                                         *)
(* Every call of the four intercepted operations is a small process: it    *)
(* clones and normalizes the request, runs the association protocol one    *)
(* store operation at a time, and then either returns the wrapped error    *)
(* or forwards the original request to the next service.  The store        *)
(* operations are the atomic steps, since the middleware holds no lock     *)
(* between them.                                                           *)
(*                                                                         *)
(* Spec      runs the calls one after the other (no two calls overlap).    *)
(* SpecConc  interleaves one call of each of NumProcs callers.             *)
(*                                                                         *)
(* The push provider (package buford) is a second, independent component:  *)
(* SpecPush runs one call of Push, with the goroutines of its worker pool  *)
(* scheduled fairly.                                                       *)
(***************************************************************************)
EXTENDS Naturals, Sequences, FiniteSets, TLC

\* Bounds of the model.
NumEnrollments == 3
NumCerts == 2
NumProcs == 2
MaxWorkers == 3
MaxBatch == 3

VARIABLES
    store,             \* storage.CertAuthStore: the (EnrollID, hash) associations
    allowDup,          \* CertAuth.allowDup
    allowRetroactive,  \* CertAuth.allowRetroactive
    warnOnly,          \* CertAuth.warnOnly
    calls              \* the calls in progress, one record per caller

\* The push provider (package buford)
VARIABLES
    workers,           \* bufordPushProvider.workers
    pushInfos,         \* the batch given to Push: its device tokens, in order
    ppc,               \* where Push is: "call", "spawn", "collect", "returned", "failed"
    queue,             \* the bufordpush.Queue of pushMulti
    spawned,           \* the goroutines pushMulti has started with queue.Push
    responses,         \* the map Push builds: device token -> result
    received,          \* the responses pushMulti has taken from queue.Responses
    sent               \* how often the push service was sent each device token

cvars == <<store, allowDup, allowRetroactive, warnOnly, calls>>
pvars == <<workers, pushInfos, ppc, queue, spawned, responses, received, sent>>
vars == <<store, allowDup, allowRetroactive, warnOnly, calls, pvars>>

Procs == 1..NumProcs

----------------------------------------------------------------------------
\* Values

\* The sentinel errors of the package, the validator's error, and the errors
\* of the two collaborators.
ErrNoCertReuse == "ErrNoCertReuse"
ErrNoCertAssoc == "ErrNoCertAssoc"
ErrMissingCert == "ErrMissingCert"
ErrValidate == "ErrValidate"
ErrStore == "ErrStore"
ErrNext == "ErrNext"
NoErr == "nil"

\* *x509.Certificate: Raw = 0 stands for the nil pointer.
NilCert == [Raw |-> 0]
Certificates == {[Raw |-> c] : c \in 0..NumCerts}

\* mdm.Enrollment as it arrives in a message: a UDID (0: empty) and, for a
\* user channel, a UserID (0: empty).  The enrollments that exist are, device
\* by device, the device channel and then the user channel of the device;
\* a message may also carry an enrollment without a UDID.
Enrollment(i) == [UDID |-> (i + 1) \div 2, UserID |-> (i + 1) % 2]
Enrollments ==
    {[UDID |-> 0, UserID |-> 0]} \cup {Enrollment(i) : i \in 1..NumEnrollments}

\* *mdm.EnrollID; Type "nil" stands for the nil pointer.
NilEnrollID == [ID |-> <<>>, Type |-> "nil"]

\* mdm.Enrollment.Resolved: the device channel resolves to itself, a user
\* channel keeps its own ID and names its device as DeviceChannelID, and an
\* enrollment without a UDID does not resolve.
Resolved(e) ==
    IF e.UDID = 0
    THEN [Type |-> "nil", ID |-> <<>>, DeviceChannelID |-> <<>>]
    ELSE IF e.UserID = 0
    THEN [Type |-> "Device", ID |-> <<e.UDID>>, DeviceChannelID |-> <<e.UDID>>]
    ELSE [Type |-> "User", ID |-> <<e.UDID, e.UserID>>,
          DeviceChannelID |-> <<e.UDID>>]

\* normalize
normalize(e) ==
    LET r == Resolved(e)
    IN  IF r.Type = "nil"
        THEN NilEnrollID
        ELSE [ID |-> r.DeviceChannelID, Type |-> r.Type]

\* The EnrollID the transport puts on the inbound request: the resolved,
\* not normalized, identity of the enrollment.
RequestEnrollID(e) ==
    LET r == Resolved(e)
    IN  IF r.Type = "nil" THEN NilEnrollID ELSE [ID |-> r.ID, Type |-> r.Type]

\* mdm.EnrollID.Validate: a nil EnrollID, an empty ID or an unknown type fail.
Validate(eid) ==
    IF eid.Type \in {"Device", "User"} /\ eid.ID # <<>>
    THEN NoErr
    ELSE ErrValidate

\* hashCert: the hex SHA-256 digest of the raw bytes; distinct raw bytes give
\* distinct digests.
hashCert(cert) == [sha256 |-> cert.Raw]

\* mdm.Request.Clone: a copy of the request.
Clone(r) == [EnrollID |-> r.EnrollID, Certificate |-> r.Certificate]

----------------------------------------------------------------------------
\* storage.CertAuthStore over a set of <<EnrollID, hash>> pairs

\* true if any enrollment owns this hash
HasCertHash(s, hash) == \E a \in s : a[2] = hash

\* true if this exact (EnrollID, hash) pair is bound
IsCertHashAssociated(s, eid, hash) == <<eid, hash>> \in s

\* true if this EnrollID owns some bound hash, whatever the hash asked about
EnrollmentHasCertHash(s, eid, hash) == \E a \in s : a[1] = eid

\* AssociateCertHash that adds the pair and keeps the other hashes of the
\* EnrollID.
AssociateCertHash_Add(s, eid, hash) == s \cup {<<eid, hash>>}

\* Idempotent bind; an EnrollID has one bound hash, so binding an EnrollID
\* that owns another hash rebinds it.
AssociateCertHash(s, eid, hash) ==
    {a \in s : a[1] # eid} \cup {<<eid, hash>>}

----------------------------------------------------------------------------
\* Calls

IdleCall ==
    [pc |-> "idle", op |-> "none",
     r |-> [EnrollID |-> NilEnrollID, Certificate |-> NilCert],
     req |-> [EnrollID |-> NilEnrollID, Certificate |-> NilCert],
     hash |-> hashCert(NilCert),
     err |-> NoErr, ret |-> [ctx |-> "", err |-> NoErr],
     ops |-> <<>>, failed |-> FALSE, nexts |-> 0,
     fwd |-> [EnrollID |-> NilEnrollID, Certificate |-> NilCert],
     res |-> NoErr, pre |-> {}]

TypeOK ==
    /\ allowDup \in BOOLEAN
    /\ allowRetroactive \in BOOLEAN
    /\ warnOnly \in BOOLEAN
    /\ DOMAIN calls = Procs
    /\ \A a \in store : Validate(a[1]) = NoErr /\ a[2].sha256 \in 1..NumCerts

\* NewPushProviderFactory without options, and no call of Push.
DefaultWorkers == 5
NoQueue == [workers |-> 0, pushing |-> {}, worker |-> <<>>, closed |-> FALSE]
NoPush ==
    /\ workers = DefaultWorkers
    /\ pushInfos = <<>>
    /\ ppc = "call"
    /\ queue = NoQueue
    /\ spawned = 0
    /\ responses = <<>>
    /\ received = 0
    /\ sent = [t \in 1..MaxBatch |-> 0]

\* NewCertAuthMiddleware followed by the options that set the three policy
\* flags; the store starts without associations.
Init ==
    /\ store = {}
    /\ allowDup \in BOOLEAN
    /\ allowRetroactive \in BOOLEAN
    /\ warnOnly \in BOOLEAN
    /\ calls = [p \in Procs |-> IdleCall]
    /\ NoPush

----------------------------------------------------------------------------
\* The decisions of the two protocols.  Each yields where the call goes next
\* (pc) and the error it fails with (err); pc "next" is the protocol's
\* "return nil", pc "done" with an error its "return err".

Go(pc) == [pc |-> pc, err |-> NoErr]
Fail(err) == [pc |-> "done", err |-> err]

\* newStart that validates the EnrollID before it looks for the certificate.
newStart_ValidateFirst(req) ==
    IF Validate(req.EnrollID) # NoErr
    THEN Fail(Validate(req.EnrollID))
    ELSE IF req.Certificate = NilCert
    THEN Fail(ErrMissingCert)
    ELSE Go("new_HasCertHash")

\* associateNewEnrollment, up to the first store operation
newStart(req) ==
    IF req.Certificate = NilCert
    THEN Fail(ErrMissingCert)
    ELSE IF Validate(req.EnrollID) # NoErr
    THEN Fail(Validate(req.EnrollID))
    ELSE Go("new_HasCertHash")

\* newOnHasCertHash without the re-use exception: a known hash is a re-use
\* whoever owns it.
newOnHasCertHash_NoSelfCheck(hasHash) ==
    IF hasHash /\ ~allowDup
    THEN Fail(ErrNoCertReuse)
    ELSE Go("new_AssociateCertHash")

\* newOnHasCertHash that forgets the allowDup flag.
newOnHasCertHash_NoAllowDup(hasHash) ==
    IF hasHash
    THEN Go("new_IsCertHashAssociated")
    ELSE Go("new_AssociateCertHash")

\* associateNewEnrollment, on the answer of HasCertHash
newOnHasCertHash(hasHash) ==
    IF hasHash /\ ~allowDup
    THEN Go("new_IsCertHashAssociated")
    ELSE Go("new_AssociateCertHash")

\* newOnIsCertHashAssociated that logs the re-use and goes on to bind.
newOnIsCertHashAssociated_NoDeny(isAssoc) ==
    IF isAssoc
    THEN Go("next")
    ELSE Go("new_AssociateCertHash")

\* newOnIsCertHashAssociated that, warn-only, returns nil without binding.
newOnIsCertHashAssociated_WarnNoBind(isAssoc) ==
    IF isAssoc
    THEN Go("next")
    ELSE IF ~warnOnly
    THEN Fail(ErrNoCertReuse)
    ELSE Go("next")

\* associateNewEnrollment, on the answer of IsCertHashAssociated
newOnIsCertHashAssociated(isAssoc) ==
    IF isAssoc
    THEN Go("next")
    ELSE IF ~warnOnly
    THEN Fail(ErrNoCertReuse)
    ELSE Go("new_AssociateCertHash")

\* validateAssociateExistingEnrollment, up to the first store operation
existingStart(req) ==
    IF req.Certificate = NilCert
    THEN Fail(ErrMissingCert)
    ELSE IF Validate(req.EnrollID) # NoErr
    THEN Fail(Validate(req.EnrollID))
    ELSE Go("ex_IsCertHashAssociated")

\* existingOnIsCertHashAssociated that forgets the allowRetroactive flag.
existingOnIsCertHashAssociated_NoRetroCheck(isAssoc) ==
    IF isAssoc
    THEN Go("next")
    ELSE Go("ex_EnrollmentHasCertHash")

\* validateAssociateExistingEnrollment, on the answer of IsCertHashAssociated
existingOnIsCertHashAssociated(isAssoc) ==
    IF isAssoc
    THEN Go("next")
    ELSE IF ~allowRetroactive /\ ~warnOnly
    THEN Fail(ErrNoCertAssoc)
    ELSE Go("ex_EnrollmentHasCertHash")

\* existingOnEnrollmentHasCertHash that lets a bound enrollment go on.
existingOnEnrollmentHasCertHash_NoCheck(hasHash) ==
    Go("ex_HasCertHash")

\* existingOnEnrollmentHasCertHash that forgets the warnOnly flag.
existingOnEnrollmentHasCertHash_NoWarn(hasHash) ==
    IF hasHash
    THEN Fail(ErrNoCertReuse)
    ELSE Go("ex_HasCertHash")

\* validateAssociateExistingEnrollment, on the answer of EnrollmentHasCertHash
existingOnEnrollmentHasCertHash(hasHash) ==
    IF hasHash /\ ~warnOnly
    THEN Fail(ErrNoCertReuse)
    ELSE Go("ex_HasCertHash")

\* existingOnHasCertHash that binds a hash another enrollment owns.
existingOnHasCertHash_NoCheck(hasHash) ==
    IF warnOnly
    THEN Go("next")
    ELSE Go("ex_AssociateCertHash")

\* existingOnHasCertHash that, warn-only, goes on to bind.
existingOnHasCertHash_WarnBinds(hasHash) ==
    IF hasHash /\ ~warnOnly
    THEN Fail(ErrNoCertReuse)
    ELSE Go("ex_AssociateCertHash")

\* existingOnHasCertHash that returns nil without binding.
existingOnHasCertHash_NoBind(hasHash) ==
    IF hasHash /\ ~warnOnly
    THEN Fail(ErrNoCertReuse)
    ELSE Go("next")

\* existingOnHasCertHash that lets allowDup excuse a hash another enrollment
\* owns.
existingOnHasCertHash_AllowDup(hasHash) ==
    IF hasHash /\ ~allowDup /\ ~warnOnly
    THEN Fail(ErrNoCertReuse)
    ELSE IF warnOnly
    THEN Go("next")
    ELSE Go("ex_AssociateCertHash")

\* validateAssociateExistingEnrollment, on the answer of HasCertHash
existingOnHasCertHash(hasHash) ==
    IF hasHash /\ ~warnOnly
    THEN Fail(ErrNoCertReuse)
    ELSE IF warnOnly
    THEN Go("next")
    ELSE Go("ex_AssociateCertHash")

\* wrap that names the existing-enrollment path for every operation.
wrap_AlwaysExisting(op, err) ==
    [ctx |-> "cert auth: existing enrollment", err |-> err]

\* The context the four operations wrap a protocol error in.
wrap(op, err) ==
    [ctx |-> IF op = "Authenticate"
             THEN "cert auth: new enrollment"
             ELSE "cert auth: existing enrollment",
     err |-> err]

----------------------------------------------------------------------------
\* Steps of a call

\* The call c after the store operation o with the decision v.
Step(c, o, v) ==
    [c EXCEPT !.ops = Append(@, o), !.pc = v.pc, !.err = v.err,
              !.ret = IF v.err # NoErr THEN wrap(c.op, v.err) ELSE @]

\* A call of operation op arrives with request r and message enrollment m:
\* the request is cloned, the clone gets the normalized EnrollID, and the
\* protocol runs up to its first store operation.
Arrive(p, op, m, cert) ==
    LET r == [EnrollID |-> RequestEnrollID(m), Certificate |-> cert]
        req == [Clone(r) EXCEPT !.EnrollID = normalize(m)]
        v == IF op = "Authenticate" THEN newStart(req) ELSE existingStart(req)
    IN  /\ calls[p].pc = "idle"
        /\ calls' = [calls EXCEPT ![p] =
                        [pc |-> v.pc, op |-> op, r |-> r, req |-> req,
                         hash |-> IF v.err = NoErr
                                  THEN hashCert(req.Certificate)
                                  ELSE hashCert(NilCert),
                         err |-> v.err,
                         ret |-> IF v.err # NoErr
                                 THEN wrap(op, v.err)
                                 ELSE [ctx |-> "", err |-> NoErr],
                         ops |-> <<>>, failed |-> FALSE, nexts |-> 0,
                         fwd |-> IdleCall.fwd, res |-> NoErr, pre |-> store]]
        /\ UNCHANGED <<store, allowDup, allowRetroactive, warnOnly, pvars>>

Authenticate(p) ==
    \E m \in Enrollments, cert \in Certificates :
        Arrive(p, "Authenticate", m, cert)

TokenUpdate(p) ==
    \E m \in Enrollments, cert \in Certificates :
        Arrive(p, "TokenUpdate", m, cert)

CheckOut(p) ==
    \E m \in Enrollments, cert \in Certificates :
        Arrive(p, "CheckOut", m, cert)

CommandAndReportResults(p) ==
    \E m \in Enrollments, cert \in Certificates :
        Arrive(p, "CommandAndReportResults", m, cert)

\* The store returned an error to the call c.
StoreFailed(c) == [c EXCEPT !.failed = TRUE]

\* Query that, warn-only, logs the store's error and goes on as if the
\* store had answered.
Query_WarnIgnoresError(p, at, o, v) ==
    /\ calls[p].pc = at
    /\ \/ calls' = [calls EXCEPT ![p] =
                        StoreFailed(Step(@, o, IF warnOnly
                                               THEN v
                                               ELSE Fail(ErrStore)))]
       \/ calls' = [calls EXCEPT ![p] = Step(@, o, v)]
    /\ UNCHANGED <<store, allowDup, allowRetroactive, warnOnly, pvars>>

\* A store query at pc `at`: it fails with the store's error, or it answers
\* and the protocol decides.
Query(p, at, o, v) ==
    /\ calls[p].pc = at
    /\ \/ calls' = [calls EXCEPT ![p] = StoreFailed(Step(@, o, Fail(ErrStore)))]
       \/ calls' = [calls EXCEPT ![p] = Step(@, o, v)]
    /\ UNCHANGED <<store, allowDup, allowRetroactive, warnOnly, pvars>>

\* The bind at pc `at`: it fails with the store's error and binds nothing,
\* or it binds and the protocol returns nil.
Bind(p, at) ==
    /\ calls[p].pc = at
    /\ \/ /\ calls' = [calls EXCEPT ![p] =
                          StoreFailed(Step(@, "AssociateCertHash",
                                           Fail(ErrStore)))]
          /\ UNCHANGED store
       \/ /\ store' = AssociateCertHash(store, calls[p].req.EnrollID,
                                        calls[p].hash)
          /\ calls' = [calls EXCEPT ![p] =
                          Step(@, "AssociateCertHash", Go("next"))]
    /\ UNCHANGED <<allowDup, allowRetroactive, warnOnly, pvars>>

new_HasCertHash(p) ==
    Query(p, "new_HasCertHash", "HasCertHash",
          newOnHasCertHash(HasCertHash(store, calls[p].hash)))

new_IsCertHashAssociated(p) ==
    Query(p, "new_IsCertHashAssociated", "IsCertHashAssociated",
          newOnIsCertHashAssociated(
              IsCertHashAssociated(store, calls[p].req.EnrollID, calls[p].hash)))

new_AssociateCertHash(p) == Bind(p, "new_AssociateCertHash")

ex_IsCertHashAssociated(p) ==
    Query(p, "ex_IsCertHashAssociated", "IsCertHashAssociated",
          existingOnIsCertHashAssociated(
              IsCertHashAssociated(store, calls[p].req.EnrollID, calls[p].hash)))

ex_EnrollmentHasCertHash(p) ==
    Query(p, "ex_EnrollmentHasCertHash", "EnrollmentHasCertHash",
          existingOnEnrollmentHasCertHash(
              EnrollmentHasCertHash(store, calls[p].req.EnrollID, calls[p].hash)))

ex_HasCertHash(p) ==
    Query(p, "ex_HasCertHash", "HasCertHash",
          existingOnHasCertHash(HasCertHash(store, calls[p].hash)))

ex_AssociateCertHash(p) == Bind(p, "ex_AssociateCertHash")

\* forwarded that hands the normalized clone to the next service.
forwarded_Clone(c) == c.req

\* The request the operation hands to the next service: r, the inbound
\* request, not the clone req.
forwarded(c) == c.r

\* What the operation returns after the next service answered res: res
\* itself.
returned(c, res) == [ctx |-> "", err |-> res]

\* The protocol returned nil: the operation of the next service is invoked
\* with the original request, and its result is the result of the call.
NextService(p) ==
    /\ calls[p].pc = "next"
    /\ \E res \in {NoErr, ErrNext} :
           calls' = [calls EXCEPT ![p] =
                        [@ EXCEPT !.pc = "done", !.nexts = @ + 1,
                                  !.fwd = forwarded(calls[p]),
                                  !.res = res,
                                  !.ret = returned(calls[p], res)]]
    /\ UNCHANGED <<store, allowDup, allowRetroactive, warnOnly, pvars>>

\* The call returns to its caller.
Return(p) ==
    /\ calls[p].pc = "done"
    /\ calls' = [calls EXCEPT ![p] = IdleCall]
    /\ UNCHANGED <<store, allowDup, allowRetroactive, warnOnly, pvars>>

Proceed(p) ==
    \/ new_HasCertHash(p)
    \/ new_IsCertHashAssociated(p)
    \/ new_AssociateCertHash(p)
    \/ ex_IsCertHashAssociated(p)
    \/ ex_EnrollmentHasCertHash(p)
    \/ ex_HasCertHash(p)
    \/ ex_AssociateCertHash(p)
    \/ NextService(p)

Begin(p) ==
    \/ Authenticate(p)
    \/ TokenUpdate(p)
    \/ CheckOut(p)
    \/ CommandAndReportResults(p)

\* Calls that do not overlap: one caller, one call at a time.
Next == Begin(1) \/ Proceed(1) \/ Return(1)

Spec == Init /\ [][Next]_vars

\* NumProcs callers make one call each, and the calls interleave at the
\* store operations.
NextConc == \E p \in Procs : Begin(p) \/ Proceed(p)

SpecConc == Init /\ [][NextConc]_vars

----------------------------------------------------------------------------
\* The push provider: bufordPushProvider.Push

\* A worker of the queue waits for a notification ("idle"), is sending one to
\* the push service ("push"), or offers its response on queue.Responses
\* ("resp").
IdleWorker == [st |-> "idle", tok |-> 0, err |-> "none"]

\* What the push service answers to a notification.
ServiceAnswers == {"ok", "error"}

Min(a, b) == IF a < b THEN a ELSE b

\* pushMulti's worker count: the batch size, capped by c.workers.
poolSize(n, w) == Min(n, w)

\* A provider made by a factory with WithWorkers(w), and a batch of n pushes
\* with distinct device tokens, about to be given to Push.
InitPush ==
    /\ store = {}
    /\ allowDup = FALSE
    /\ allowRetroactive = FALSE
    /\ warnOnly = FALSE
    /\ calls = [p \in Procs |-> IdleCall]
    /\ workers \in 0..MaxWorkers
    /\ pushInfos \in {[i \in 1..n |-> i] : n \in 0..MaxBatch}
    /\ ppc = "call"
    /\ queue = NoQueue
    /\ spawned = 0
    /\ responses = <<>>
    /\ received = 0
    /\ sent = [t \in 1..MaxBatch |-> 0]

\* Push with an empty batch: an error, nothing is sent.
PushEmpty ==
    /\ ppc = "call"
    /\ Len(pushInfos) < 1
    /\ ppc' = "failed"
    /\ UNCHANGED <<cvars, spawned, workers, pushInfos, queue, responses, received, sent>>

\* Push with one push: pushSingle sends it and the map holds its response.
PushSingle ==
    /\ ppc = "call"
    /\ Len(pushInfos) = 1
    /\ \E a \in ServiceAnswers :
          /\ sent' = [sent EXCEPT ![pushInfos[1]] = @ + 1]
          /\ responses' = (pushInfos[1] :> a)
    /\ ppc' = "returned"
    /\ UNCHANGED <<cvars, spawned, workers, pushInfos, queue, received>>

\* Push with two pushes or more: pushMulti makes the queue with its workers.
PushMulti ==
    /\ ppc = "call"
    /\ Len(pushInfos) > 1
    /\ queue' = [workers |-> poolSize(Len(pushInfos), workers),
                 pushing |-> {},
                 worker |-> [w \in 1..poolSize(Len(pushInfos), workers)
                                |-> IdleWorker],
                 closed |-> FALSE]
    /\ ppc' = "spawn"
    /\ UNCHANGED <<cvars, spawned, workers, pushInfos, responses, received, sent>>

\* pushMulti's first loop: one goroutine per push calls queue.Push; when the
\* loop is over the empty map is made.
Spawn ==
    /\ ppc = "spawn"
    /\ spawned < Len(pushInfos)
    /\ queue' = [queue EXCEPT !.pushing = @ \cup {pushInfos[spawned + 1]}]
    /\ spawned' = spawned + 1
    /\ ppc' = IF spawned + 1 = Len(pushInfos) THEN "collect" ELSE "spawn"
    /\ UNCHANGED <<cvars, workers, pushInfos, responses, received, sent>>

\* queue.Push hands its notification to a waiting worker.
Handoff ==
    /\ \E t \in queue.pushing, w \in DOMAIN queue.worker :
          /\ queue.worker[w].st = "idle"
          /\ queue' = [queue EXCEPT !.pushing = @ \ {t},
                                    !.worker[w] = [st |-> "push", tok |-> t,
                                                   err |-> "none"]]
    /\ UNCHANGED <<cvars, spawned, workers, pushInfos, ppc, responses, received, sent>>

\* A worker sends its notification to the push service, which answers.
ServicePush ==
    /\ \E w \in DOMAIN queue.worker, a \in ServiceAnswers :
          /\ queue.worker[w].st = "push"
          /\ sent' = [sent EXCEPT ![queue.worker[w].tok] = @ + 1]
          /\ queue' = [queue EXCEPT !.worker[w].st = "resp",
                                    !.worker[w].err = a]
    /\ UNCHANGED <<cvars, spawned, workers, pushInfos, ppc, responses, received>>

\* pushMulti's second loop takes a response from queue.Responses and puts it
\* in the map under its device token.
Receive ==
    /\ ppc = "collect"
    /\ received < Len(pushInfos)
    /\ \E w \in DOMAIN queue.worker :
          /\ queue.worker[w].st = "resp"
          /\ responses' =
                [t \in DOMAIN responses \cup {queue.worker[w].tok} |->
                    IF t = queue.worker[w].tok
                    THEN queue.worker[w].err
                    ELSE responses[t]]
          /\ queue' = [queue EXCEPT !.worker[w] = IdleWorker]
    /\ received' = received + 1
    /\ UNCHANGED <<cvars, spawned, workers, pushInfos, ppc, sent>>

\* pushMulti has one response per push: the queue is closed and Push
\* returns the map.
ReturnMulti ==
    /\ ppc = "collect"
    /\ received = Len(pushInfos)
    /\ queue' = [queue EXCEPT !.closed = TRUE]
    /\ ppc' = "returned"
    /\ UNCHANGED <<cvars, spawned, workers, pushInfos, responses, received, sent>>

NextPush ==
    \/ PushEmpty
    \/ PushSingle
    \/ PushMulti
    \/ Spawn
    \/ Handoff
    \/ ServicePush
    \/ Receive
    \/ ReturnMulti

\* One call of Push; a goroutine that can run does run, and the push
\* service answers.
SpecPush == InitPush /\ [][NextPush]_vars /\ WF_vars(NextPush)

----------------------------------------------------------------------------
\* Vocabulary of the claims

\* The call of caller p has finished and has not yet returned.
Done(p) == calls[p].pc = "done"

\* The call carries a certificate and a valid normalized EnrollID.
WellFormed(c) ==
    c.req.Certificate # NilCert /\ Validate(c.req.EnrollID) = NoErr

\* The store answered every operation of the call.
StoreAnswered(c) == c.err # ErrStore

\* A finished call of operation op, well formed, which the store answered.
Settled(p, op) ==
    /\ Done(p)
    /\ calls[p].op = op
    /\ WellFormed(calls[p])
    /\ StoreAnswered(calls[p])

\* The call was refused with err: the caller gets err in its context and the
\* next service is not invoked.
Refused(c, err) ==
    /\ c.err = err
    /\ c.ret = wrap(c.op, err)
    /\ c.nexts = 0

\* The protocol returned nil and the call was forwarded, once, to the next
\* service.
Passed(c) == c.err = NoErr /\ c.nexts = 1

\* The EnrollIDs other than eid that own hash in s.
OtherOwners(s, eid, hash) == {a[1] : a \in {b \in s : b[2] = hash /\ b[1] # eid}}

\* The hashes other than hash that eid owns in s.
OtherHashes(s, eid, hash) == {a[2] : a \in {b \in s : b[1] = eid /\ b[2] # hash}}

----------------------------------------------------------------------------
\* C1: with duplicate hashes and warn-only disabled, an Authenticate that
\* presents a hash which another EnrollID owns (as it does after that
\* EnrollID's successful Authenticate) fails with ErrNoCertReuse and leaves
\* the store as it was, the store answering its queries.
C1_ReuseDenied ==
    (~allowDup /\ ~warnOnly) =>
        \A p \in Procs :
            (/\ Settled(p, "Authenticate")
             /\ OtherOwners(calls[p].pre, calls[p].req.EnrollID, calls[p].hash) # {})
            => (/\ Refused(calls[p], ErrNoCertReuse)
                /\ store = calls[p].pre)

C1_Witness ==
    /\ ~allowDup /\ ~warnOnly
    /\ \E p \in Procs :
        /\ Settled(p, "Authenticate")
        /\ OtherOwners(calls[p].pre, calls[p].req.EnrollID, calls[p].hash) # {}
        /\ Refused(calls[p], ErrNoCertReuse)
        /\ calls[p].ops = <<"HasCertHash", "IsCertHashAssociated">>

----------------------------------------------------------------------------
\* The case of C2: a finished CheckOut of an enrollment that owns a hash
\* and presents another one.
C2_Case(p) ==
    /\ Settled(p, "CheckOut")
    /\ OtherHashes(calls[p].pre, calls[p].req.EnrollID, calls[p].hash) # {}
    /\ <<calls[p].req.EnrollID, calls[p].hash>> \notin calls[p].pre

\* C2 as claimed: with warn-only disabled, a CheckOut of an enrollment bound
\* to H1 that presents H2 fails with ErrNoCertReuse under every retroactive
\* and duplicate setting.
C2_Original ==
    ~warnOnly =>
        \A p \in Procs : C2_Case(p) => Refused(calls[p], ErrNoCertReuse)

\* C2 as amended: with warn-only disabled, such a CheckOut always fails and
\* binds nothing; it fails with ErrNoCertReuse when retroactive binding is
\* enabled and with ErrNoCertAssoc when it is disabled, under both duplicate
\* settings.
C2_SwapDenied ==
    ~warnOnly =>
        \A p \in Procs :
            C2_Case(p) =>
                /\ Refused(calls[p], IF allowRetroactive
                                     THEN ErrNoCertReuse
                                     ELSE ErrNoCertAssoc)
                /\ store = calls[p].pre

C2_Witness ==
    /\ ~warnOnly /\ allowRetroactive /\ allowDup
    /\ \E p \in Procs :
        /\ C2_Case(p)
        /\ Refused(calls[p], ErrNoCertReuse)
        /\ calls[p].ops = <<"IsCertHashAssociated", "EnrollmentHasCertHash">>

----------------------------------------------------------------------------
\* The case of C3: every caller has finished an Authenticate, all presented
\* the same hash for the EnrollIDs of pairwise distinct devices, no
\* enrollment owned the hash when any of the calls arrived, and the store
\* answered every query.
C3_Case ==
    /\ \A p \in Procs : Settled(p, "Authenticate")
    /\ \A p \in Procs : ~HasCertHash(calls[p].pre, calls[p].hash)
    /\ \A p, q \in Procs :
          /\ calls[p].hash = calls[q].hash
          /\ (p # q => calls[p].req.EnrollID.ID # calls[q].req.EnrollID.ID)

\* C3 as claimed: with duplicate hashes and warn-only disabled, of NumProcs
\* overlapping Authenticate calls that present one hash for distinct
\* EnrollIDs exactly one succeeds, the others fail with ErrNoCertReuse, and
\* the hash is bound to one EnrollID only.
C3_Original ==
    (~allowDup /\ ~warnOnly /\ C3_Case) =>
        /\ Cardinality({p \in Procs : calls[p].err = NoErr}) = 1
        /\ \A p \in Procs : calls[p].err \in {NoErr, ErrNoCertReuse}
        /\ Cardinality({a \in store : a[2] = calls[1].hash}) <= 1

----------------------------------------------------------------------------
----------------------------------------------------------------------------
\* C5: with duplicate hashes and warn-only disabled, under either
\* retroactive setting, in every state that calls of the four operations,
\* one after the other, can reach, no hash is bound to more than one
\* EnrollID.
C5_OneEnrollIDPerHash ==
    (~allowDup /\ ~warnOnly) =>
        \A a, b \in store : a[2] = b[2] => a[1] = b[1]

C5_Witness ==
    /\ ~allowDup /\ ~warnOnly /\ allowRetroactive
    /\ Cardinality(store) >= 2
    /\ \E p \in Procs :
        /\ Settled(p, "TokenUpdate")
        /\ OtherOwners(calls[p].pre, calls[p].req.EnrollID, calls[p].hash) # {}
        /\ calls[p].ops =
              <<"IsCertHashAssociated", "EnrollmentHasCertHash", "HasCertHash">>
        /\ Refused(calls[p], ErrNoCertReuse)

----------------------------------------------------------------------------
\* The case of C6: a finished TokenUpdate of an enrollment that owns no
\* hash.
C6_Case(p) ==
    /\ Settled(p, "TokenUpdate")
    /\ ~EnrollmentHasCertHash(calls[p].pre, calls[p].req.EnrollID, calls[p].hash)

\* The TokenUpdate passed and bound its (EnrollID, hash).
C6_Bound(p) ==
    /\ Passed(calls[p])
    /\ store = calls[p].pre \cup {<<calls[p].req.EnrollID, calls[p].hash>>}

\* C6 as claimed: with warn-only disabled, a TokenUpdate of an enrollment
\* without association fails with ErrNoCertAssoc and binds nothing when
\* retroactive binding is disabled, and passes and binds when it is enabled.
C6_Original ==
    ~warnOnly =>
        \A p \in Procs :
            C6_Case(p) =>
                IF allowRetroactive
                THEN C6_Bound(p)
                ELSE Refused(calls[p], ErrNoCertAssoc) /\ store = calls[p].pre

\* C6 as amended: with retroactive binding enabled the TokenUpdate passes
\* and binds only when no enrollment owns the presented hash; when another
\* enrollment owns it, the TokenUpdate fails with ErrNoCertReuse and binds
\* nothing.
C6_Retroactive ==
    ~warnOnly =>
        \A p \in Procs :
            C6_Case(p) =>
                IF ~allowRetroactive
                THEN Refused(calls[p], ErrNoCertAssoc) /\ store = calls[p].pre
                ELSE IF HasCertHash(calls[p].pre, calls[p].hash)
                THEN Refused(calls[p], ErrNoCertReuse) /\ store = calls[p].pre
                ELSE C6_Bound(p)

C6_Witness ==
    /\ ~warnOnly /\ allowRetroactive
    /\ \E p \in Procs :
        /\ C6_Case(p)
        /\ C6_Bound(p)
        /\ calls[p].pre # {}
        /\ store # calls[p].pre

----------------------------------------------------------------------------
\* The first Authenticate of C7: the presented hash is unknown to the store
\* and the EnrollID owns no hash.
C7_First(p) ==
    /\ Settled(p, "Authenticate")
    /\ ~HasCertHash(calls[p].pre, calls[p].hash)
    /\ ~EnrollmentHasCertHash(calls[p].pre, calls[p].req.EnrollID, calls[p].hash)

\* The repeated Authenticate of C7: the (EnrollID, hash) is bound already.
C7_Repeat(p) ==
    /\ Settled(p, "Authenticate")
    /\ IsCertHashAssociated(calls[p].pre, calls[p].req.EnrollID, calls[p].hash)

\* C7: under both duplicate settings, the first Authenticate of a fresh
\* EnrollID with an unknown hash passes and adds exactly its one
\* association, and an Authenticate that repeats a bound (EnrollID, hash)
\* passes and leaves the store as it was.
C7_Idempotent ==
    \A p \in Procs :
        /\ C7_First(p) =>
              /\ Passed(calls[p])
              /\ store = calls[p].pre \cup {<<calls[p].req.EnrollID, calls[p].hash>>}
              /\ <<calls[p].req.EnrollID, calls[p].hash>> \notin calls[p].pre
        /\ C7_Repeat(p) =>
              /\ Passed(calls[p])
              /\ store = calls[p].pre
              /\ {a \in store : a[1] = calls[p].req.EnrollID} =
                     {<<calls[p].req.EnrollID, calls[p].hash>>}

C7_Witness ==
    \E p \in Procs :
        /\ C7_Repeat(p)
        /\ Passed(calls[p])
        /\ ~allowDup
        /\ calls[p].ops = <<"HasCertHash", "IsCertHashAssociated">>

----------------------------------------------------------------------------
\* C8: with duplicate hashes enabled, an Authenticate that presents a hash
\* another EnrollID owns passes, and afterwards both EnrollIDs are
\* associated with the hash.
C8_DuplicateAllowed ==
    allowDup =>
        \A p \in Procs :
            (/\ Settled(p, "Authenticate")
             /\ OtherOwners(calls[p].pre, calls[p].req.EnrollID, calls[p].hash) # {})
            => (/\ Passed(calls[p])
                /\ <<calls[p].req.EnrollID, calls[p].hash>> \in store
                /\ \A e \in OtherOwners(calls[p].pre, calls[p].req.EnrollID,
                                        calls[p].hash) :
                       <<e, calls[p].hash>> \in store)

C8_Witness ==
    /\ allowDup /\ ~warnOnly
    /\ \E p \in Procs :
        /\ Settled(p, "Authenticate")
        /\ OtherOwners(calls[p].pre, calls[p].req.EnrollID, calls[p].hash) # {}
        /\ <<calls[p].req.EnrollID, calls[p].hash>> \notin calls[p].pre
        /\ Passed(calls[p])
        /\ Cardinality({a \in store : a[2] = calls[p].hash}) >= 2

----------------------------------------------------------------------------
\* C9: with warn-only enabled no call of the four operations fails with
\* ErrNoCertReuse or ErrNoCertAssoc, and every well-formed call the store
\* answers is forwarded to the next service.
C9_WarnOnlyNeverDenies ==
    warnOnly =>
        \A p \in Procs :
            /\ calls[p].err \notin {ErrNoCertReuse, ErrNoCertAssoc}
            /\ calls[p].ret.err \notin {ErrNoCertReuse, ErrNoCertAssoc}
            /\ (Done(p) /\ WellFormed(calls[p]) /\ StoreAnswered(calls[p]))
                   => Passed(calls[p])

C9_Witness ==
    /\ warnOnly /\ ~allowRetroactive /\ ~allowDup
    /\ \E p \in Procs :
        /\ Settled(p, "CheckOut")
        /\ ~IsCertHashAssociated(calls[p].pre, calls[p].req.EnrollID, calls[p].hash)
        /\ OtherHashes(calls[p].pre, calls[p].req.EnrollID, calls[p].hash) # {}
        /\ OtherOwners(calls[p].pre, calls[p].req.EnrollID, calls[p].hash) # {}
        /\ Passed(calls[p])

----------------------------------------------------------------------------
\* C10: with warn-only enabled and duplicate hashes disabled, an
\* Authenticate that presents a hash another EnrollID owns passes and binds
\* the conflicting (EnrollID, hash) all the same.
C10_WarnOnlyStillBinds ==
    (warnOnly /\ ~allowDup) =>
        \A p \in Procs :
            (/\ Settled(p, "Authenticate")
             /\ OtherOwners(calls[p].pre, calls[p].req.EnrollID, calls[p].hash) # {})
            => (/\ Passed(calls[p])
                /\ <<calls[p].req.EnrollID, calls[p].hash>> \in store)

C10_Witness ==
    /\ warnOnly /\ ~allowDup
    /\ \E p \in Procs :
        /\ Settled(p, "Authenticate")
        /\ OtherOwners(calls[p].pre, calls[p].req.EnrollID, calls[p].hash) # {}
        /\ <<calls[p].req.EnrollID, calls[p].hash>> \notin calls[p].pre
        /\ calls[p].ops =
              <<"HasCertHash", "IsCertHashAssociated", "AssociateCertHash">>
        /\ Passed(calls[p])
        /\ <<calls[p].req.EnrollID, calls[p].hash>> \in store

----------------------------------------------------------------------------
\* The three operations that run the existing-enrollment protocol.
ExistingOps == {"TokenUpdate", "CheckOut", "CommandAndReportResults"}

\* The number of times the call issued the store operation o.
Issued(c, o) == Cardinality({i \in 1..Len(c.ops) : c.ops[i] = o})

\* C11: with warn-only enabled, TokenUpdate, CheckOut and
\* CommandAndReportResults never change the store: from the arrival of such
\* a call to its return the associations are those it found, and it never
\* issues AssociateCertHash, whether or not it detected a violation.
C11_WarnOnlyNoMutation ==
    warnOnly =>
        \A p \in Procs :
            calls[p].op \in ExistingOps =>
                /\ store = calls[p].pre
                /\ Issued(calls[p], "AssociateCertHash") = 0

C11_Witness ==
    /\ warnOnly /\ allowRetroactive
    /\ \E p \in Procs :
        /\ Settled(p, "TokenUpdate")
        /\ ~EnrollmentHasCertHash(calls[p].pre, calls[p].req.EnrollID, calls[p].hash)
        /\ ~HasCertHash(calls[p].pre, calls[p].hash)
        /\ calls[p].ops =
              <<"IsCertHashAssociated", "EnrollmentHasCertHash", "HasCertHash">>
        /\ Passed(calls[p])
        /\ store = calls[p].pre

----------------------------------------------------------------------------
\* C12: when the protocol of a call fails, the call is over, the next
\* service has not been invoked for it, and the caller gets the protocol's
\* error in the context of its path: "new enrollment" for Authenticate,
\* "existing enrollment" for the three other operations.
C12_FailureStopsChain ==
    \A p \in Procs :
        calls[p].err # NoErr =>
            /\ Done(p)
            /\ calls[p].nexts = 0
            /\ calls[p].ret.err = calls[p].err
            /\ calls[p].op = "Authenticate"
                   => calls[p].ret.ctx = "cert auth: new enrollment"
            /\ calls[p].op \in ExistingOps
                   => calls[p].ret.ctx = "cert auth: existing enrollment"

C12_Witness ==
    /\ \E p \in Procs :
        /\ Settled(p, "Authenticate")
        /\ calls[p].err = ErrNoCertReuse
        /\ calls[p].ret = [ctx |-> "cert auth: new enrollment",
                           err |-> ErrNoCertReuse]
        /\ calls[p].nexts = 0

----------------------------------------------------------------------------
\* C13: when the protocol of a call returns nil, the operation of the next
\* service is invoked exactly once, after the last store operation of the
\* call, with the inbound request (its EnrollID is the one the request came
\* with, not the normalized one), and what the next service answers is what
\* the caller gets.
C13_ForwardsOriginal ==
    \A p \in Procs :
        /\ calls[p].nexts > 0 => Done(p) /\ calls[p].err = NoErr
        /\ (Done(p) /\ calls[p].err = NoErr) =>
              /\ calls[p].nexts = 1
              /\ calls[p].fwd = calls[p].r
              /\ calls[p].ret = [ctx |-> "", err |-> calls[p].res]

C13_Witness ==
    /\ ~warnOnly /\ allowRetroactive
    /\ \E p \in Procs :
        /\ Settled(p, "TokenUpdate")
        /\ Passed(calls[p])
        /\ calls[p].ops[Len(calls[p].ops)] = "AssociateCertHash"
        /\ calls[p].r.EnrollID # calls[p].req.EnrollID
        /\ calls[p].fwd.EnrollID = calls[p].r.EnrollID
        /\ calls[p].ret = [ctx |-> "", err |-> ErrNext]

----------------------------------------------------------------------------
\* C14: under every policy setting, a call whose request has no certificate
\* fails with ErrMissingCert, also when its EnrollID is invalid, and a call
\* with a certificate and an invalid normalized EnrollID fails with the
\* validator's error; neither issues a store operation, changes the store
\* or reaches the next service.
C14_MalformedRejected ==
    \A p \in Procs :
        (calls[p].pc # "idle" /\ ~WellFormed(calls[p])) =>
            /\ Refused(calls[p], IF calls[p].req.Certificate = NilCert
                                 THEN ErrMissingCert
                                 ELSE ErrValidate)
            /\ Done(p)
            /\ calls[p].ops = <<>>
            /\ store = calls[p].pre

C14_Witness ==
    /\ warnOnly
    /\ \E p \in Procs :
        /\ Done(p)
        /\ calls[p].op = "Authenticate"
        /\ calls[p].req.Certificate = NilCert
        /\ Validate(calls[p].req.EnrollID) # NoErr
        /\ Refused(calls[p], ErrMissingCert)
        /\ calls[p].ops = <<>>

----------------------------------------------------------------------------
\* C15: when a store operation of a call returns an error, under every
\* policy setting, the call is over at once and fails with that error: the
\* failed operation is the last one it issued, no operation was issued
\* twice, and the next service is not invoked.
C15_StoreErrorPropagates ==
    \A p \in Procs :
        /\ calls[p].failed =>
              /\ Done(p)
              /\ Refused(calls[p], ErrStore)
        /\ calls[p].err = ErrStore => calls[p].failed
        /\ \A o \in {"HasCertHash", "IsCertHashAssociated",
                     "EnrollmentHasCertHash", "AssociateCertHash"} :
               Issued(calls[p], o) <= 1

C15_Witness ==
    /\ warnOnly
    /\ \E p \in Procs :
        /\ Done(p)
        /\ calls[p].failed
        /\ calls[p].op = "CheckOut"
        /\ calls[p].ops = <<"IsCertHashAssociated", "EnrollmentHasCertHash">>
        /\ Refused(calls[p], ErrStore)

----------------------------------------------------------------------------
----------------------------------------------------------------------------
\* What the existing-enrollment protocol answers, warn-only disabled, to an
\* EnrollID and a hash on the store s: a function of the store and of the
\* retroactive setting alone.
C17_Expected(s, eid, hash) ==
    IF IsCertHashAssociated(s, eid, hash) THEN NoErr
    ELSE IF ~allowRetroactive THEN ErrNoCertAssoc
    ELSE IF EnrollmentHasCertHash(s, eid, hash) THEN ErrNoCertReuse
    ELSE IF HasCertHash(s, hash) THEN ErrNoCertReuse
    ELSE NoErr

\* C17: with warn-only disabled, a TokenUpdate, CheckOut or
\* CommandAndReportResults that the store answers binds its (EnrollID, hash),
\* and nothing else, exactly when retroactive binding is enabled, the
\* EnrollID owns no hash and no enrollment owns the presented hash; its
\* result and its effect on the store are the same under both duplicate
\* settings, and a hash that another EnrollID owns is refused with
\* ErrNoCertReuse also when duplicates are allowed.
C17_RetroactiveBindOnly ==
    ~warnOnly =>
        \A p \in Procs :
            (/\ Done(p)
             /\ calls[p].op \in ExistingOps
             /\ WellFormed(calls[p])
             /\ StoreAnswered(calls[p])) =>
                LET c == calls[p]
                    binds == /\ allowRetroactive
                             /\ ~EnrollmentHasCertHash(c.pre, c.req.EnrollID, c.hash)
                             /\ ~HasCertHash(c.pre, c.hash)
                IN  /\ c.err = C17_Expected(c.pre, c.req.EnrollID, c.hash)
                    /\ store = IF binds
                               THEN c.pre \cup {<<c.req.EnrollID, c.hash>>}
                               ELSE c.pre
                    /\ binds <=> Issued(c, "AssociateCertHash") = 1

C17_Witness ==
    /\ ~warnOnly /\ allowRetroactive /\ allowDup
    /\ \E p \in Procs :
        /\ Settled(p, "TokenUpdate")
        /\ ~EnrollmentHasCertHash(calls[p].pre, calls[p].req.EnrollID, calls[p].hash)
        /\ OtherOwners(calls[p].pre, calls[p].req.EnrollID, calls[p].hash) # {}
        /\ Refused(calls[p], ErrNoCertReuse)
        /\ store = calls[p].pre

----------------------------------------------------------------------------
----------------------------------------------------------------------------
\* The case of C19: a finished TokenUpdate, CheckOut or
\* CommandAndReportResults from the user channel of a device, presenting the
\* hash that the device channel of that device is bound to.
C19_Case(p) ==
    /\ Done(p)
    /\ calls[p].op \in ExistingOps
    /\ WellFormed(calls[p])
    /\ StoreAnswered(calls[p])
    /\ calls[p].r.EnrollID.Type = "User"
    /\ <<[ID |-> calls[p].req.EnrollID.ID, Type |-> "Device"], calls[p].hash>>
           \in calls[p].pre

\* C19 as claimed: such a call is accepted as already associated and binds
\* nothing.
C19_Original ==
    \A p \in Procs :
        C19_Case(p) =>
            /\ Passed(calls[p])
            /\ calls[p].ops = <<"IsCertHashAssociated">>
            /\ store = calls[p].pre

----------------------------------------------------------------------------
\* The device tokens of the batch.
Tokens == {pushInfos[i] : i \in 1..Len(pushInfos)}

\* The workers of the queue that are sending to the push service or hold a
\* response.
Running == {w \in DOMAIN queue.worker : queue.worker[w].st # "idle"}

\* What holds of Push at every moment, by C20: the map it returns holds one
\* response per submitted token and each token was sent once; at most
\* min(N, workers) workers run; one push takes the single-item path, without
\* a queue; an empty batch is an error and sends nothing.
C20_Safe ==
    /\ ppc = "returned" =>
          /\ DOMAIN responses = Tokens
          /\ \A t \in Tokens : sent[t] = 1
    /\ Cardinality(Running) <= Min(Len(pushInfos), workers)
    /\ Len(pushInfos) = 1 => queue = NoQueue
    /\ Len(pushInfos) = 0 =>
          /\ ppc \in {"call", "failed"}
          /\ \A t \in 1..MaxBatch : sent[t] = 0

\* C20 as claimed: for any configured worker limit, Push eventually returns
\* (the map for a batch of one push or more, the error for an empty batch),
\* and C20_Safe holds throughout.
C20_Original ==
    /\ <>(ppc \in {"returned", "failed"})
    /\ []C20_Safe

====
